---- MODULE Spec2Model ----
(***************************************************************************)
(* gpmf/orientation.py: the block segmenter extract_blocks (a generator    *)
(* over the STRM containers of a GPMF stream) and the two orientation       *)
(* decoders parse_iori_block / parse_cori_block.                            *)
(*                                                                          *)
(* A KLV item is a record [key, value].  SCAL carries an integer scale,     *)
(* STMP a sequence of integer timestamps, IORI / CORI a sequence of raw     *)
(* quaternions (4-tuples of integers, component order x, y, z, w).          *)
(* A float is kept exact, as a reduced fraction <<numerator, denominator>>. *)
(***************************************************************************)
EXTENDS Integers, Sequences, FiniteSets, TLC

VARIABLES
    \* ---- extract_blocks (generator frame) and its consumer
    stream,       \* the STRM containers parse.filter_klv has produced so far
    fourcc,       \* the fourcc argument of extract_blocks
    pc,           \* control position (of the generator, or of the decode run)
    pos,          \* number of elements of the current container scanned
    content,      \* local `content`
    is_cc,        \* local `is_cc`
    yielded,      \* the blocks yielded so far, in order
    yieldedFrom,  \* for each yielded block, the index of its container
    errAt,        \* number of blocks yielded when a decode first failed (0: none)
    \* ---- parse_iori_block / parse_cori_block (last call)
    arg,          \* the block as the caller passed it
    qkey,         \* "IORI": parse_iori_block, "CORI": parse_cori_block
    block,        \* the block object after the call
    block_dict,   \* local `block_dict`
    data,         \* local `data`
    outcome,      \* what the call returned or raised
    memo,         \* an earlier call, remembered: [set, arg, out]
    between,      \* a call on another block happened since memo was taken
    repeat        \* the last call was a second call on memo's block

genVars == <<stream, fourcc, pos, content, is_cc, yielded, yieldedFrom, errAt>>
decVars == <<arg, qkey, block, block_dict, data, outcome>>
memoVars == <<memo, between, repeat>>
vars == <<stream, fourcc, pc, pos, content, is_cc, yielded, yieldedFrom, errAt,
          arg, qkey, block, block_dict, data, outcome, memo, between, repeat>>

(***************************************************************************)
(* Bounds of the model.                                                     *)
(***************************************************************************)
MaxBlockLen == 4       \* records of a block handed to a decoder directly
MaxContainers == 2     \* STRM containers of a stream
MaxTotalRecords == 4   \* records of a stream, over all its containers

(***************************************************************************)
(* KLV items.                                                               *)
(***************************************************************************)
qW == <<0, 0, 0, 1>>   \* identity rotation (raw, before scaling)
qZ == <<0, 0, 1, 0>>   \* half turn about z
q0 == <<0, 0, 0, 0>>   \* zero-norm quaternion

KLVItem(k, v) == [key |-> k, value |-> v]

ScalItems == {KLVItem("SCAL", 1), KLVItem("SCAL", 2)}
StmpItems == {KLVItem("STMP", <<10>>), KLVItem("STMP", <<10, 20>>)}
IoriItems == {KLVItem("IORI", <<qW>>), KLVItem("IORI", <<qZ, qW>>),
              KLVItem("IORI", <<q0>>), KLVItem("IORI", << >>)}
CoriItems == {KLVItem("CORI", <<qZ>>)}

Records == ScalItems \cup StmpItems \cup IoriItems \cup CoriItems
StreamRecords == {KLVItem("SCAL", 2), KLVItem("STMP", <<10>>), KLVItem("IORI", <<qW>>)}

SeqsUpTo(S, n) == UNION {[1..m -> S] : m \in 0..n}

Blocks == SeqsUpTo(Records, MaxBlockLen)
\* blocks of distinct stream records, in any order
ProbeBlocks ==
    {b \in SeqsUpTo(StreamRecords, MaxBlockLen) :
        \A i, j \in DOMAIN b : i # j => b[i] # b[j]}
Channels == {"IORI", "CORI"}
QuatKeys == {"IORI", "CORI"}

Keys(items) == {items[i].key : i \in DOMAIN items}
HasKey(items, k) == k \in Keys(items)

(***************************************************************************)
(* The decoders.                                                            *)
(***************************************************************************)
RECURSIVE Gcd(_, _)
Gcd(a, b) == IF b = 0 THEN a ELSE Gcd(b, a % b)

Abs(n) == IF n < 0 THEN -n ELSE n

\* raw * 1.0 / scale: true (floating-point) division, scale # 0
TrueDiv(n, d) ==
    LET g == Gcd(Abs(n), Abs(d))
        sgn == IF d < 0 THEN -1 ELSE 1
    IN  <<sgn * (n \div g), sgn * (d \div g)>>

\* the dict a comprehension starts from
EmptyDict == [k \in {} |-> 0]
StaleDict == block_dict
NewDict == EmptyDict

\* d[s.key] = s
DictKeepFirst(d, s) ==
    [k \in (DOMAIN d) \cup {s.key} |-> IF k \in DOMAIN d THEN d[k] ELSE s]
DictPut(d, s) ==
    [k \in (DOMAIN d) \cup {s.key} |-> IF k = s.key THEN s ELSE d[k]]

\* {s.key: s for s in block}
RECURSIVE DictComp(_, _)
DictComp(d, items) ==
    IF items = << >> THEN d ELSE DictComp(DictPut(d, Head(items)), Tail(items))

\* block_dict[qk].value * 1.0 / block_dict["SCAL"].value, broadcast
Rescale(quats, scal) ==
    [i \in DOMAIN quats |-> [c \in 1..4 |-> TrueDiv(quats[i][c], scal)]]

ZeroNorm(q) == \A c \in 1..4 : q[c][1] = 0

\* R.from_quat(q).as_euler('zyx', degrees=True) for the axis quaternions:
\* from_quat normalises q, so only its direction counts
AsEulerZYX(q) ==
    CASE q[1][1] = 0 /\ q[2][1] = 0 /\ q[3][1] = 0 /\ q[4][1] # 0 -> <<0, 0, 0>>
      [] q[1][1] = 0 /\ q[2][1] = 0 /\ q[3][1] # 0 /\ q[4][1] = 0 -> <<180, 0, 0>>

Column(rot, c) == [i \in DOMAIN rot |-> rot[i][c]]

\* the timestamps of the result
CtsScaled(d) ==
    [i \in DOMAIN d["STMP"].value |-> d["STMP"].value[i] \div d["SCAL"].value]
Cts(d) == d["STMP"].value

NoData == << >>

\* raise tag(k): the call ends without a result
ReturnedEmpty(tag, k) ==
    [tag |-> "ok", key |-> "", cts |-> << >>, z |-> << >>, y |-> << >>, x |-> << >>]
Raised(tag, k) ==
    [tag |-> tag, key |-> k, cts |-> << >>, z |-> << >>, y |-> << >>, x |-> << >>]
NoOutcome == [tag |-> "none", key |-> "", cts |-> << >>, z |-> << >>, y |-> << >>, x |-> << >>]

\* the body shared by parse_iori_block (qk = "IORI") and parse_cori_block
\* (qk = "CORI"): the frame's locals and what the call returns or raises
ParseBlock(b, qk) ==
    LET d == DictComp(NewDict, b)
        frame(dt, out) == [block |-> b, block_dict |-> d, data |-> dt, out |-> out]
    IN  IF qk \notin DOMAIN d THEN frame(NoData, Raised("KeyError", qk))
        ELSE IF "SCAL" \notin DOMAIN d THEN frame(NoData, Raised("KeyError", "SCAL"))
        ELSE
          LET dt == Rescale(d[qk].value, d["SCAL"].value)
          IN  IF \E i \in DOMAIN dt : ZeroNorm(dt[i])
                  THEN frame(dt, Raised("ValueError", "from_quat"))
              ELSE IF Len(dt) = 0
                  THEN frame(dt, Raised("ValueError", "unpack"))
              ELSE IF "STMP" \notin DOMAIN d
                  THEN frame(dt, Raised("KeyError", "STMP"))
              ELSE
                LET rotation == [i \in DOMAIN dt |-> AsEulerZYX(dt[i])]
                IN  frame(dt, [tag |-> "ok", key |-> "",
                               cts |-> Cts(d),
                               z |-> Column(rotation, 1),
                               y |-> Column(rotation, 2),
                               x |-> Column(rotation, 3)])

parse_iori_block(b) == ParseBlock(b, "IORI")
parse_cori_block(b) == ParseBlock(b, "CORI")

Decoder(b, qk) == IF qk = "IORI" THEN parse_iori_block(b) ELSE parse_cori_block(b)

\* one call of a decoder on block b
ParseCall(b, qk) ==
    LET r == Decoder(b, qk)
    IN  /\ arg' = b
        /\ qkey' = qk
        /\ block' = r.block
        /\ block_dict' = r.block_dict
        /\ data' = r.data
        /\ outcome' = r.out

NoMemo == [set |-> FALSE, arg |-> << >>, out |-> NoOutcome]

(***************************************************************************)
(* extract_blocks.                                                          *)
(***************************************************************************)
RECURSIVE Total(_)
Total(containers) ==
    IF containers = << >> THEN 0
    ELSE Len(Head(containers)) + Total(Tail(containers))

\* the container the loop variable s is bound to
s == stream[Len(stream)]

\* index of the last record of items with key k (0: none)
LastIndex(items, k) ==
    LET I == {i \in DOMAIN items : items[i].key = k}
    IN  IF I = {} THEN 0 ELSE CHOOSE i \in I : \A j \in I : j <= i

\* content = []
StaleContent == content
NewContent == << >>

\* is_cc = False
StaleFlag == is_cc
NewFlag == FALSE

\* content.append(elt)
AppendFront(c, elt) == <<elt>> \o c
AppendElt(c, elt) == Append(c, elt)

\* if elt.key == fourcc: is_cc = True
Flag(f, elt, cc) == IF elt.key = cc THEN TRUE ELSE f

\* if is_cc:
YieldAlways(f) == TRUE
YieldCond(f) == f

\* yield content
UpToChannel(c) == SubSeq(c, 1, LastIndex(c, fourcc))
YieldValue(c) == c

Init ==
    /\ stream = << >>
    /\ fourcc \in Channels
    /\ pc = "pull"
    /\ pos = 0 /\ content = << >> /\ is_cc = FALSE
    /\ yielded = << >> /\ yieldedFrom = << >> /\ errAt = 0
    /\ arg = << >> /\ qkey = fourcc /\ block = << >>
    /\ block_dict = EmptyDict /\ data = NoData /\ outcome = NoOutcome
    /\ memo = NoMemo /\ between = FALSE /\ repeat = FALSE

\* for s in parse.filter_klv(stream, 'STRM'): the next container, then
\* content = [] and is_cc = False
GenPull ==
    /\ pc = "pull"
    /\ Len(stream) < MaxContainers
    /\ \E c \in SeqsUpTo(StreamRecords, MaxTotalRecords - Total(stream)) :
          stream' = Append(stream, c)
    /\ content' = NewContent
    /\ is_cc' = NewFlag
    /\ pos' = 0
    /\ pc' = "scan"
    /\ UNCHANGED <<fourcc, yielded, yieldedFrom, errAt, decVars, memoVars>>

\* parse.filter_klv is exhausted: the generator returns
GenEnd ==
    /\ pc = "pull"
    /\ pc' = "done"
    /\ UNCHANGED <<genVars, decVars, memoVars>>

\* for elt in s.value: one iteration
GenScan ==
    /\ pc = "scan"
    /\ pos < Len(s)
    /\ content' = AppendElt(content, s[pos + 1])
    /\ is_cc' = Flag(is_cc, s[pos + 1], fourcc)
    /\ pos' = pos + 1
    /\ UNCHANGED <<stream, fourcc, pc, yielded, yieldedFrom, errAt, decVars, memoVars>>

\* s.value is exhausted and is_cc holds: yield content
GenYield ==
    /\ pc = "scan"
    /\ pos = Len(s)
    /\ YieldCond(is_cc)
    /\ yielded' = Append(yielded, YieldValue(content))
    /\ yieldedFrom' = Append(yieldedFrom, Len(stream))
    /\ pc' = "caller"
    /\ UNCHANGED <<stream, fourcc, pos, content, is_cc, errAt, decVars, memoVars>>

\* s.value is exhausted and is_cc does not hold: on to the next container
GenSkip ==
    /\ pc = "scan"
    /\ pos = Len(s)
    /\ ~YieldCond(is_cc)
    /\ pc' = "pull"
    /\ UNCHANGED <<genVars, decVars, memoVars>>

\* the consumer decodes the block it was handed with the channel's decoder,
\* catches what the decoder raises, and asks for the next block
CallerDecode ==
    /\ pc = "caller"
    /\ ParseCall(yielded[Len(yielded)], fourcc)
    /\ errAt' = IF errAt = 0 /\ Decoder(yielded[Len(yielded)], fourcc).out.tag # "ok"
                    THEN Len(yielded) ELSE errAt
    /\ pc' = "pull"
    /\ UNCHANGED <<stream, fourcc, pos, content, is_cc, yielded, yieldedFrom, memoVars>>

Next == GenPull \/ GenEnd \/ GenScan \/ GenYield \/ GenSkip \/ CallerDecode

Spec == Init /\ [][Next]_vars

(***************************************************************************)
(* SpecDecode: one decoder applied once to an arbitrary block.              *)
(***************************************************************************)
InitDecode ==
    /\ stream = << >> /\ fourcc = "IORI" /\ pos = 0 /\ content = << >>
    /\ is_cc = FALSE /\ yielded = << >> /\ yieldedFrom = << >> /\ errAt = 0
    /\ pc = "call"
    /\ arg \in Blocks
    /\ qkey \in QuatKeys
    /\ block = arg
    /\ block_dict = EmptyDict
    /\ data = NoData
    /\ outcome = NoOutcome
    /\ memo = NoMemo /\ between = FALSE /\ repeat = FALSE

Decode ==
    /\ pc = "call"
    /\ ParseCall(arg, qkey)
    /\ pc' = "returned"
    /\ UNCHANGED <<genVars, memoVars>>

NextDecode == Decode

SpecDecode == InitDecode /\ [][NextDecode]_vars

(***************************************************************************)
(* SpecPure: one decoder applied again and again, to blocks in any order.   *)
(***************************************************************************)
InitPure ==
    /\ stream = << >> /\ fourcc = "IORI" /\ pos = 0 /\ content = << >>
    /\ is_cc = FALSE /\ yielded = << >> /\ yieldedFrom = << >> /\ errAt = 0
    /\ pc = "idle"
    /\ arg = << >>
    /\ qkey \in QuatKeys
    /\ block = << >>
    /\ block_dict = EmptyDict
    /\ data = NoData
    /\ outcome = NoOutcome
    /\ memo = NoMemo /\ between = FALSE /\ repeat = FALSE

\* a call whose block and outcome are remembered
DecodeAndRemember ==
    /\ pc = "idle"
    /\ \E b \in ProbeBlocks :
          /\ ParseCall(b, qkey)
          /\ memo' = [set |-> TRUE, arg |-> b, out |-> Decoder(b, qkey).out]
    /\ between' = FALSE
    /\ repeat' = FALSE
    /\ UNCHANGED <<genVars, pc>>

\* a later call, on the remembered block or on another one
DecodeAgain ==
    /\ pc = "idle"
    /\ memo.set
    /\ \E b \in ProbeBlocks :
          /\ ParseCall(b, qkey)
          /\ between' = (between \/ b # memo.arg)
          /\ repeat' = (b = memo.arg)
    /\ UNCHANGED <<genVars, pc, memo>>

NextPure == DecodeAndRemember \/ DecodeAgain

SpecPure == InitPure /\ [][NextPure]_vars

(***************************************************************************)
(* Claims about extract_blocks.                                             *)
(***************************************************************************)
\* the number of containers whose scan and yield decision are over
NumProcessed == IF pc = "scan" THEN Len(stream) - 1 ELSE Len(stream)
Processed(i) == i \in 1..NumProcessed

\* the blocks yielded for container i
BlocksFrom(i) == {j \in DOMAIN yielded : yieldedFrom[j] = i}

\* the containers i..n that hold a record with key k, in order
RECURSIVE Qualifying(_, _, _, _)
Qualifying(containers, i, n, k) ==
    IF i > n THEN << >>
    ELSE IF \E p \in DOMAIN containers[i] : containers[i][p].key = k
        THEN <<containers[i]>> \o Qualifying(containers, i + 1, n, k)
    ELSE Qualifying(containers, i + 1, n, k)

\* C1: a container that holds the channel key, once or several times, yields
\* exactly one block, and that block is the container's record sequence
C1_OneBlockWholeContainer ==
    \A i \in DOMAIN stream :
        (Processed(i) /\ HasKey(stream[i], fourcc)) =>
            /\ Cardinality(BlocksFrom(i)) = 1
            /\ \A j \in BlocksFrom(i) :
                  /\ Len(yielded[j]) = Len(stream[i])
                  /\ \A p \in DOMAIN stream[i] : yielded[j][p] = stream[i][p]

C1_Witness ==
    \E i \in DOMAIN stream :
        /\ Processed(i)
        /\ Cardinality({p \in DOMAIN stream[i] : stream[i][p].key = fourcc}) = 2
        /\ Cardinality(Keys(stream[i])) = 2
        /\ BlocksFrom(i) # {}

\* C2: a container without the channel key, an empty one included, yields no
\* block, and the traversal goes on to the next container
C2_NoBlockWithoutKey ==
    /\ \A i \in DOMAIN stream :
          (Processed(i) /\ ~HasKey(stream[i], fourcc)) => BlocksFrom(i) = {}
    /\ (stream # << >> /\ pc # "scan" /\ ~HasKey(s, fourcc)) => pc \in {"pull", "done"}

C2_Witness ==
    /\ Len(stream) = 2
    /\ stream[1] = << >>
    /\ stream[2] # << >> /\ ~HasKey(stream[2], fourcc)
    /\ pc = "pull"
    /\ yielded = << >>

\* C3 as stated: every yielded block is non-empty and its last record is the
\* channel's
C3_EndsAtChannelRecord ==
    \A j \in DOMAIN yielded :
        /\ yielded[j] # << >>
        /\ yielded[j][Len(yielded[j])].key = fourcc

\* C3 amended: every yielded block is non-empty and holds a record of the
\* channel; the records that follow the channel record in its container are
\* part of the block, so the block need not end at the channel record
C3_HoldsChannelRecord ==
    \A j \in DOMAIN yielded :
        /\ yielded[j] # << >>
        /\ HasKey(yielded[j], fourcc)
        /\ LET c == stream[yieldedFrom[j]]
           IN  /\ Len(yielded[j]) = Len(c)
               /\ \A p \in DOMAIN c :
                     p > LastIndex(c, fourcc) => yielded[j][p] = c[p]

C3_Witness ==
    \E j \in DOMAIN yielded :
        /\ HasKey(yielded[j], fourcc)
        /\ yielded[j][Len(yielded[j])].key # fourcc

\* C9: the blocks yielded are the containers holding the channel key, in stream
\* order, each once; the buffer holds records of the current container only;
\* a container's block is yielded after its last record was scanned and before
\* the next container is read
C9_BlocksAreQualifyingContainers ==
    /\ yielded = Qualifying(stream, 1, NumProcessed, fourcc)
    /\ \A j \in DOMAIN yielded :
          /\ yieldedFrom[j] \in 1..NumProcessed
          /\ \A h \in DOMAIN yielded : h < j => yieldedFrom[h] < yieldedFrom[j]
    /\ pc = "scan" => content = SubSeq(s, 1, pos)
    /\ pc = "caller" => (pos = Len(s) /\ yieldedFrom[Len(yielded)] = Len(stream))

C9_Witness ==
    /\ Len(stream) = 2
    /\ stream[1] # << >> /\ ~HasKey(stream[1], fourcc)
    /\ Len(stream[2]) > 1
    /\ yielded = <<stream[2]>>

\* C7: once a decode has failed on a block, the blocks yielded after it are
\* the containers after that block's that hold the channel key, in order and
\* whole, whatever the decodes of those blocks do
C7_TraversalSurvivesDecodeError ==
    errAt > 0 =>
        /\ errAt \in DOMAIN yielded
        /\ SubSeq(yielded, errAt + 1, Len(yielded))
              = Qualifying(stream, yieldedFrom[errAt] + 1, NumProcessed, fourcc)

C7_Witness ==
    /\ errAt = 1
    /\ Len(yielded) = 2
    /\ pc = "pull"
    /\ outcome.tag = "ok"

(***************************************************************************)
(* Claims about the decoders.                                               *)
(***************************************************************************)
Returned == pc = "returned"
Required == {qkey, "SCAL", "STMP"}

LastValue(items, k) == items[LastIndex(items, k)].value

\* items without the records that a later record of the same key shadows
RECURSIVE LastOfEachKey(_)
LastOfEachKey(items) ==
    IF items = << >> THEN << >>
    ELSE IF HasKey(Tail(items), Head(items).key) THEN LastOfEachKey(Tail(items))
    ELSE <<Head(items)>> \o LastOfEachKey(Tail(items))

\* the quaternion samples the conversion accepts: at least one, none of zero norm
Convertible(quats) ==
    /\ Len(quats) > 0
    /\ \A i \in DOMAIN quats : quats[i] # q0

\* C4: every returned result has four sequences of equal length, whatever the
\* sample counts of the STMP record and of the quaternion record
C4_EqualLengths ==
    (Returned /\ outcome.tag = "ok") =>
        /\ Len(outcome.cts) = Len(outcome.z)
        /\ Len(outcome.z) = Len(outcome.y)
        /\ Len(outcome.y) = Len(outcome.x)

C6_CtsIsStmpUnchanged ==
    Returned =>
        /\ block = arg
        /\ outcome.tag = "ok" => outcome.cts = LastValue(arg, "STMP")

C6_Witness ==
    /\ Returned /\ outcome.tag = "ok"
    /\ LastValue(arg, "SCAL") = 2
    /\ outcome.cts = <<10, 20>>

\* C10: the lookup is last-wins: the call ends as it does on the block without
\* its shadowed records; the angle triples are those of the last quaternion
\* record, scaled by the last SCAL, and cts is the last STMP record's value
C10_LastWins ==
    Returned =>
        /\ outcome = Decoder(LastOfEachKey(arg), qkey).out
        /\ \A k \in DOMAIN block_dict : block_dict[k] = arg[LastIndex(arg, k)]
        /\ outcome.tag = "ok" =>
              /\ Len(outcome.z) = Len(LastValue(arg, qkey))
              /\ Len(outcome.y) = Len(LastValue(arg, qkey))
              /\ Len(outcome.x) = Len(LastValue(arg, qkey))
              /\ outcome.cts = LastValue(arg, "STMP")
              /\ data = Rescale(LastValue(arg, qkey), LastValue(arg, "SCAL"))

C10_Witness ==
    /\ Returned /\ outcome.tag = "ok"
    /\ \E i, j \in DOMAIN arg :
          /\ i < j
          /\ arg[i].key = qkey /\ arg[j].key = qkey
          /\ Len(arg[i].value) = 2 /\ Len(arg[j].value) = 1
    /\ Len(outcome.z) = 1

====
